---- MODULE Spec2Model ----
(***************************************************************************)
(* A model of the v0 language-model chat provider (src/src/provider.ts):   *)
(*   - the message translator convertMessages         (SpecConvert),       *)
(*   - the response translator processV0Response      (SpecProcess),       *)
(*   - the provider's public operations, run concurrently by the host and  *)
(*     suspended at their awaits                      (Spec).              *)
(*                                                                         *)
(* JavaScript strings are sequences of fragments (characters, or the       *)
(* literals of the source), so that concatenation, prefixes and            *)
(* containment are computed, not assumed.                                  *)
(* An optional value (T | undefined) is None or Some(x).                   *)
(***************************************************************************)
EXTENDS Integers, Sequences, FiniteSets, TLC

VARIABLES
    messages,     \* convertMessages: the host message history passed in
    v0Messages,   \* convertMessages: its result, once it has run
    message,      \* processV0Response: the response message passed in
    progress,     \* processV0Response: the parts reported to the progress sink
    processed,    \* processV0Response: how the call ended
    secret,       \* context.secrets: the value stored under 'v0.apiKey'
    calls         \* the provider calls in flight, one record per host call

convVars == <<messages, v0Messages>>
procVars == <<message, progress, processed>>
provVars == <<secret, calls>>
vars == <<messages, v0Messages, message, progress, processed, secret, calls>>

----------------------------------------------------------------------------
(* Bounds of the explored inputs.                                          *)

MaxMsgs == 2          \* messages in a history
MaxParts == 3         \* content parts (and tool-result content parts) in a history
MaxToolCalls == 2     \* tool-call records in a response message

----------------------------------------------------------------------------
(* Optional values and strings.                                            *)

None == [some |-> FALSE]
Some(x) == [some |-> TRUE, val |-> x]

RECURSIVE Concat(_)
\* Array.prototype.join(''): the strings of a sequence, concatenated in order.
Concat(strs) ==
    IF strs = <<>> THEN <<>> ELSE Head(strs) \o Concat(Tail(strs))

StartsWith(s, prefix) ==
    /\ Len(s) >= Len(prefix)
    /\ SubSeq(s, 1, Len(prefix)) = prefix

Contains(s, sub) ==
    \E i \in 1..(Len(s) - Len(sub) + 1) : SubSeq(s, i, i + Len(sub) - 1) = sub

\* The string payloads the host sends in text parts.
Strings == {<<>>, <<"a">>, <<"b">>}

----------------------------------------------------------------------------
(* JSON values, JSON.stringify and JSON.parse over a small fragment:       *)
(* the empty object, the numbers 1, 11, 111, ... and, for stringify, an     *)
(* object graph with a cycle (which JSON.stringify rejects).               *)

JsonObj == [t |-> "object"]
JsonNum(n) == [t |-> "number", n |-> n]
JsonCyclic == [t |-> "cyclic"]

RECURSIVE Ones(_)
\* The decimal digits of 1, 11, 111, ...
Ones(n) == IF n < 10 THEN <<"1">> ELSE Ones(n \div 10) \o <<"1">>

RECURSIVE OnesValue(_)
OnesValue(s) == IF Len(s) = 1 THEN 1 ELSE 10 * OnesValue(SubSeq(s, 1, Len(s) - 1)) + 1

\* JSON.stringify: None when it throws (TypeError: circular structure).
jsonStringify(v) ==
    CASE v.t = "object" -> Some(<<"{", "}">>)
      [] v.t = "number" -> Some(Ones(v.n))
      [] OTHER -> None

\* JSON.parse: None when it throws (SyntaxError).
jsonParse(s) ==
    CASE s = <<"{", "}">> -> Some(JsonObj)
      [] s # <<>> /\ (\A i \in 1..Len(s) : s[i] = "1") -> Some(JsonNum(OnesValue(s)))
      [] OTHER -> None

----------------------------------------------------------------------------
(* Host chat messages (vscode.LanguageModelChatMessage).                   *)

Roles == {1, 2, 3}          \* User, Assistant, System
CallIds == {"", "t1", "t2"}

TextPart(s) == [kind |-> "text", value |-> s]
ToolCallPart(id, name, input) ==
    [kind |-> "toolCall", callId |-> id, name |-> name, input |-> input]
ToolResultPart(id, content) ==
    [kind |-> "toolResult", callId |-> id, content |-> content]
DataPart == [kind |-> "data"]

\* The parts of a tool result's content: text, prompt-tsx (its value is an
\* object, not a string) and data (no value field).
TsxPart == [kind |-> "tsx"]
ResultParts == {TextPart(<<"a">>), TextPart(<<"b">>), TsxPart, DataPart}

\* 'value' in resultPart
HasValue(resultPart) == resultPart.kind \in {"text", "tsx"}

\* What join('') makes of the value it is given.
ValueString(resultPart) ==
    IF resultPart.kind = "text" THEN resultPart.value ELSE <<"[object Object]">>

ToolInputs == {JsonObj, JsonNum(1), JsonCyclic}

----------------------------------------------------------------------------
(* convertMessages: host messages to the remote API's messages.            *)

v0RoleSystemAsUser(msg) == IF msg.role = 2 THEN "assistant" ELSE "user"

\* msg.role === 1 ? 'user' : 'assistant'
v0Role(msg) == IF msg.role = 1 THEN "user" ELSE "assistant"

RECURSIVE resultTexts(_)
\* part.content.filter('value' in resultPart).map(resultPart => resultPart.value)
resultTexts(content) ==
    IF content = <<>> THEN <<>>
    ELSE (IF HasValue(Head(content)) THEN <<ValueString(Head(content))>> ELSE <<>>)
         \o resultTexts(Tail(content))

RECURSIVE textPartsOf(_)
\* The textParts array after the loop over msg.content.
textPartsOf(content) ==
    IF content = <<>> THEN <<>>
    ELSE LET part == Head(content) IN
         (CASE part.kind = "text" -> <<part.value>>
            [] part.kind = "toolResult" -> resultTexts(part.content)
            [] OTHER -> <<>>)
         \o textPartsOf(Tail(content))

\* textParts.join('')
join(textParts) == Concat(textParts)

RECURSIVE toolCallsOf(_)
\* The toolCalls array after the loop; meaningful when no input fails to serialise.
toolCallsOf(content) ==
    IF content = <<>> THEN <<>>
    ELSE LET part == Head(content) IN
         (IF part.kind = "toolCall" /\ jsonStringify(part.input).some
          THEN <<[id |-> part.callId, type |-> "function",
                  function |-> [name |-> part.name,
                                arguments |-> jsonStringify(part.input).val]]>>
          ELSE <<>>)
         \o toolCallsOf(Tail(content))

RECURSIVE toolCallIdOf(_)
\* The toolCallId variable after the loop: the last tool result's call id.
toolCallIdOf(content) ==
    IF content = <<>> THEN None
    ELSE LET part == content[Len(content)] IN
         IF part.kind = "toolResult" THEN Some(part.callId)
         ELSE toolCallIdOf(SubSeq(content, 1, Len(content) - 1))

\* if (toolCallId): undefined and the empty string are both falsy.
Truthy(optString) == optString.some /\ optString.val # ""

\* JSON.stringify(part.input) throws inside the loop.
convertThrows(msg) ==
    \E i \in 1..Len(msg.content) :
        /\ msg.content[i].kind = "toolCall"
        /\ ~jsonStringify(msg.content[i].input).some

convertMessage(msg) ==
    [role |-> v0Role(msg),
     content |-> join(textPartsOf(msg.content)),
     tool_calls |-> IF Len(toolCallsOf(msg.content)) > 0
                    THEN Some(toolCallsOf(msg.content)) ELSE None,
     tool_call_id |-> IF Truthy(toolCallIdOf(msg.content))
                      THEN toolCallIdOf(msg.content) ELSE None]

\* messages.map(...): the list of remote messages, or the exception thrown.
convertMessages(msgs) ==
    IF \E i \in 1..Len(msgs) : convertThrows(msgs[i])
    THEN [threw |-> TRUE]
    ELSE [threw |-> FALSE, value |-> [i \in 1..Len(msgs) |-> convertMessage(msgs[i])]]

----------------------------------------------------------------------------
(* SpecConvert: the host builds a history, then convertMessages runs.      *)
(* Histories of several messages carry text parts; tool-call, tool-result  *)
(* and data parts are explored in one-message histories.                   *)

RECURSIVE PartsWeight(_)
\* The parts of one message's content, a tool result's content parts included.
PartsWeight(content) ==
    IF content = <<>> THEN 0
    ELSE 1
         + (IF Head(content).kind = "toolResult" THEN Len(Head(content).content) ELSE 0)
         + PartsWeight(Tail(content))

RECURSIVE Weight(_)
\* The parts of a whole history.
Weight(msgs) ==
    IF msgs = <<>> THEN 0 ELSE PartsWeight(Head(msgs).content) + Weight(Tail(msgs))

AllText(msg) == \A j \in 1..Len(msg.content) : msg.content[j].kind = "text"

AppendPart(msgs, part) ==
    [msgs EXCEPT ![Len(msgs)].content = Append(@, part)]

InitConvert ==
    /\ messages = <<>>
    /\ v0Messages = None
    /\ message = None
    /\ progress = <<>>
    /\ processed = "no"
    /\ secret = None
    /\ calls = <<>>

HostAddMessage ==
    /\ v0Messages = None
    /\ Len(messages) < MaxMsgs
    /\ \A i \in 1..Len(messages) : AllText(messages[i])
    /\ \E role \in Roles : messages' = Append(messages, [role |-> role, content |-> <<>>])
    /\ UNCHANGED <<v0Messages, procVars, provVars>>

HostAddTextPart ==
    /\ v0Messages = None
    /\ messages # <<>>
    /\ Weight(messages) < MaxParts
    /\ \E s \in Strings : messages' = AppendPart(messages, TextPart(s))
    /\ UNCHANGED <<v0Messages, procVars, provVars>>

HostAddToolPart ==
    /\ v0Messages = None
    /\ Len(messages) = 1
    /\ Weight(messages) < MaxParts
    /\ \E part \in {ToolCallPart("t1", "f", input) : input \in ToolInputs}
                   \cup {ToolResultPart(id, <<>>) : id \in CallIds}
                   \cup {DataPart} :
           messages' = AppendPart(messages, part)
    /\ UNCHANGED <<v0Messages, procVars, provVars>>

HostAddResultContent ==
    /\ v0Messages = None
    /\ Len(messages) = 1
    /\ Weight(messages) < MaxParts
    /\ messages[1].content # <<>>
    /\ LET n == Len(messages[1].content) IN
       /\ messages[1].content[n].kind = "toolResult"
       /\ \E rp \in ResultParts :
              messages' = [messages EXCEPT ![1].content[n].content = Append(@, rp)]
    /\ UNCHANGED <<v0Messages, procVars, provVars>>

Convert ==
    /\ v0Messages = None
    /\ v0Messages' = Some(convertMessages(messages))
    /\ UNCHANGED <<messages, procVars, provVars>>

NextConvert ==
    \/ HostAddMessage
    \/ HostAddTextPart
    \/ HostAddToolPart
    \/ HostAddResultContent
    \/ Convert

SpecConvert == InitConvert /\ [][NextConvert]_vars

----------------------------------------------------------------------------
(* Claims about convertMessages, checked under SpecConvert.                *)

Converted == v0Messages.some
TextOnlyHistory == \A i \in 1..Len(messages) : AllText(messages[i])

\* C6: for a history whose messages hold only text parts, convertMessages
\* returns a list of the same length and order; the i-th remote message has
\* role "user" if the i-th host message has the user role and "assistant" for
\* every other role (system included), and its content is the concatenation,
\* with no separator, of that message's text parts in their original order.
C6_TextHistoryPreserved ==
    (Converted /\ TextOnlyHistory) =>
        /\ ~v0Messages.val.threw
        /\ Len(v0Messages.val.value) = Len(messages)
        /\ \A i \in 1..Len(messages) :
               LET host == messages[i]
                   remote == v0Messages.val.value[i]
               IN  /\ remote.role = (IF host.role = 1 THEN "user" ELSE "assistant")
                   /\ remote.content =
                          Concat([j \in 1..Len(host.content) |-> host.content[j].value])

\* C6 witness: a converted two-message history with a system message and a
\* message of two different non-empty text parts.
C6_Witness ==
    /\ Converted
    /\ TextOnlyHistory
    /\ Len(messages) = 2
    /\ messages[1].role = 3
    /\ Len(messages[2].content) = 2
    /\ messages[2].content[1].value = <<"a">>
    /\ messages[2].content[2].value = <<"b">>

SingleToolResult ==
    /\ Len(messages) = 1
    /\ Len(messages[1].content) = 1
    /\ messages[1].content[1].kind = "toolResult"

\* C7: for a host message that holds only a single tool-result part, whatever
\* its call id, the remote message's tool_call_id equals that part's call id
\* and its content equals the concatenated text extracted from the result's
\* content.
C7_ToolResultCorrelated ==
    (Converted /\ SingleToolResult) =>
        LET part == messages[1].content[1]
            remote == v0Messages.val.value[1]
            kept == SelectSeq(part.content, HasValue)
        IN  /\ remote.tool_call_id = Some(part.callId)
            /\ remote.content = Concat([j \in 1..Len(kept) |-> ValueString(kept[j])])

\* The same statement for call ids that are not the empty string, which holds.
ToolResultCorrelatedNonEmptyId ==
    (Converted /\ SingleToolResult /\ messages[1].content[1].callId # "") =>
        C7_ToolResultCorrelated

----------------------------------------------------------------------------
(* processV0Response: a response message to the parts reported through the *)
(* progress sink.                                                          *)

\* The argument strings of the remote tool calls: two valid JSON texts and
\* three that JSON.parse rejects.
ArgStrings == {<<"{", "}">>, <<"1", "1">>, <<"{">>, <<>>, <<"}", "{">>}

\* A record of message.tool_calls as the JSON body carries it: null, or an
\* object with an id, a type and (possibly) a function.
NullToolCall == [isNull |-> TRUE]
ToolCall(id, type, function) ==
    [isNull |-> FALSE, id |-> id, type |-> type, function |-> function]
ToolCalls ==
    {NullToolCall}
    \cup {ToolCall(id, type, fn) :
            id \in {"c1", "c2"},
            type \in {"function", "retrieval"},
            fn \in {None} \cup {Some([name |-> "f", arguments |-> a]) : a \in ArgStrings}}

SeqsUpTo(S, n) == UNION {[1..k -> S] : k \in 0..n}

\* message.content: null, the empty string or a text.
Contents == {None, Some(<<>>), Some(<<"h", "i">>)}

ResponseMessages ==
    [content : Contents,
     tool_calls : {None} \cup {Some(tcs) : tcs \in SeqsUpTo(ToolCalls, MaxToolCalls)}]

\* The payload reported when the argument string does not parse.
RawArguments(raw) == [t |-> "object", arguments |-> raw]

inputOfDropped(arguments) ==
    IF jsonParse(arguments).some THEN jsonParse(arguments).val ELSE JsonObj

\* try { input = JSON.parse(arguments) } catch { input = { arguments } }
inputOf(arguments) ==
    IF jsonParse(arguments).some THEN jsonParse(arguments).val
    ELSE RawArguments(arguments)

emitsAnyKind(toolCall) == toolCall.function.some

\* toolCall.type === 'function' && toolCall.function
emits(toolCall) == toolCall.type = "function" /\ toolCall.function.some

RECURSIVE toolCallParts(_)
\* The for loop over message.tool_calls: the parts it reports, and whether it
\* ended by throwing (reading .type of a null record).
toolCallParts(toolCalls) ==
    IF toolCalls = <<>> THEN [parts |-> <<>>, threw |-> FALSE]
    ELSE LET toolCall == Head(toolCalls) IN
         IF toolCall.isNull THEN [parts |-> <<>>, threw |-> TRUE]
         ELSE LET rest == toolCallParts(Tail(toolCalls))
                  own == IF emits(toolCall)
                         THEN <<ToolCallPart(toolCall.id, toolCall.function.val.name,
                                             inputOf(toolCall.function.val.arguments))>>
                         ELSE <<>>
              IN  [parts |-> own \o rest.parts, threw |-> rest.threw]

\* if (message.content)
contentPresent(msg) == msg.content.some /\ msg.content.val # <<>>

\* The parts reported, in order, and whether the call ended by throwing.
processV0Response(msg) ==
    LET text == IF contentPresent(msg) THEN <<TextPart(msg.content.val)>> ELSE <<>>
        tools == IF msg.tool_calls.some /\ Len(msg.tool_calls.val) > 0
                 THEN toolCallParts(msg.tool_calls.val)
                 ELSE [parts |-> <<>>, threw |-> FALSE]
    IN  [parts |-> text \o tools.parts, threw |-> tools.threw]

----------------------------------------------------------------------------
(* SpecProcess: processV0Response runs on a response message.              *)

InitProcess ==
    /\ messages = <<>>
    /\ v0Messages = None
    /\ message \in {Some(m) : m \in ResponseMessages}
    /\ progress = <<>>
    /\ processed = "no"
    /\ secret = None
    /\ calls = <<>>

ProcessResponse ==
    /\ processed = "no"
    /\ message.some
    /\ progress' = progress \o processV0Response(message.val).parts
    /\ processed' = IF processV0Response(message.val).threw THEN "threw" ELSE "returned"
    /\ UNCHANGED <<message, convVars, provVars>>

NextProcess == ProcessResponse

SpecProcess == InitProcess /\ [][NextProcess]_vars

----------------------------------------------------------------------------
(* Claims about processV0Response, checked under SpecProcess.              *)

TextCount == IF contentPresent(message.val) THEN 1 ELSE 0
Records == IF message.val.tool_calls.some THEN message.val.tool_calls.val ELSE <<>>
NoNullUpTo(i) == \A j \in 1..i : ~Records[j].isNull
FunctionKind(toolCall) == ~toolCall.isNull /\ toolCall.type = "function"
FunctionKindWithFunction(toolCall) == FunctionKind(toolCall) /\ toolCall.function.some
IsText(part) == part.kind = "text"
IsToolCall(part) == part.kind = "toolCall"

\* C8: a function-kind tool call whose argument string is not valid JSON is
\* still reported as exactly one tool-call part, with the record's id and
\* function name and the payload {arguments: <raw string>}; the parse failure
\* reports no error text part and does not stop the remaining tool calls from
\* being processed.
C8_UnparsableArgumentsFallBack ==
    processed # "no" =>
        /\ \A i \in 1..Len(Records) :
               (/\ NoNullUpTo(i)
                /\ FunctionKindWithFunction(Records[i])
                /\ ~jsonParse(Records[i].function.val.arguments).some)
               => LET pos == TextCount
                             + Len(SelectSeq(SubSeq(Records, 1, i), FunctionKindWithFunction))
                  IN  /\ pos <= Len(progress)
                      /\ progress[pos] =
                             ToolCallPart(Records[i].id, Records[i].function.val.name,
                                          [t |-> "object",
                                           arguments |-> Records[i].function.val.arguments])
        /\ Len(SelectSeq(progress, IsText)) = TextCount
        /\ NoNullUpTo(Len(Records)) =>
               Len(SelectSeq(progress, IsToolCall))
                   = Len(SelectSeq(Records, FunctionKindWithFunction))

\* C8 witness: a processed response whose first tool call has unparsable
\* arguments and whose second, parsable one was still reported after it.
C8_Witness ==
    /\ processed = "returned"
    /\ Len(Records) = 2
    /\ FunctionKindWithFunction(Records[1])
    /\ ~jsonParse(Records[1].function.val.arguments).some
    /\ FunctionKindWithFunction(Records[2])
    /\ jsonParse(Records[2].function.val.arguments).some
    /\ Len(progress) = 2

\* C9 as amended: for a successful response the reported parts are one text
\* part if and only if the content is non-empty, first, then exactly one
\* tool-call part per record whose kind is "function" and that carries a
\* function object, in the order of the records; every other record
\* contributes no part.
C9_PartsInOrder ==
    processed = "returned" =>
        LET kept == SelectSeq(Records, FunctionKindWithFunction) IN
        /\ Len(progress) = TextCount + Len(kept)
        /\ TextCount = 1 => progress[1] = TextPart(message.val.content.val)
        /\ \A k \in 1..Len(kept) :
               /\ IsToolCall(progress[TextCount + k])
               /\ progress[TextCount + k].callId = kept[k].id
               /\ progress[TextCount + k].name = kept[k].function.val.name

\* C9 witness: a text, then a record of another kind and a function record.
C9_Witness ==
    /\ processed = "returned"
    /\ TextCount = 1
    /\ Len(Records) = 2
    /\ Records[1].type = "retrieval"
    /\ FunctionKindWithFunction(Records[2])
    /\ Len(progress) = 2

\* C9 as stated: one tool-call part per record whose kind is "function".
C9_OnePartPerFunctionKindRecord ==
    processed = "returned" =>
        /\ Len(SelectSeq(progress, IsText)) = TextCount
        /\ Len(SelectSeq(progress, IsToolCall)) = Len(SelectSeq(Records, FunctionKind))

----------------------------------------------------------------------------
(* The provider: V0ChatModelProvider and the host that drives it.          *)
(* The host runs one generation, one model listing and one 'v0.manage'     *)
(* command at a time, concurrently with each other, and starts the next    *)
(* once it has taken the result of the last. Every await is a step of its  *)
(* own; the code between two awaits is one step.                           *)

GenCalls == {"generate"}
InfoCalls == {"list"}
ManageCalls == {"manage"}
CountCalls == {"count"}
Calls == GenCalls \cup InfoCalls \cup ManageCalls \cup CountCalls

KindOf(c) ==
    IF c \in GenCalls THEN "gen"
    ELSE IF c \in InfoCalls THEN "info"
    ELSE IF c \in ManageCalls THEN "manage" ELSE "count"
Idle(c) == [kind |-> KindOf(c), pc |-> "idle"]

\* What window.showInputBox resolves to: undefined (dismissed) or the text.
InputValues == {None, Some(""), Some("k1"), Some("k2")}

\* What the confirmation prompt resolves to: a button, or undefined.
ConfirmChoices == {Some("Configure API Key"), Some("Cancel"), None}

getV0ModelInfo(id, name, description, maxInputTokens, maxOutputTokens) ==
    [id |-> id,
     name |-> name,
     tooltip |-> <<"v0 ", name, " - ", description>>,
     family |-> "v0",
     maxInputTokens |-> maxInputTokens,
     maxOutputTokens |-> maxOutputTokens,
     version |-> "1.5.0",
     capabilities |-> [toolCalling |-> TRUE, imageInput |-> TRUE]]

\* The list provideLanguageModelChatInformation returns when a key is stored.
modelList ==
    <<getV0ModelInfo("v0-1.5-md", "v0-1.5-md", "For everyday tasks and UI generation",
                     128000, 64000),
      getV0ModelInfo("v0-1.5-lg", "v0-1.5-lg", "For advanced thinking or reasoning",
                     512000, 64000)>>

----------------------------------------------------------------------------
(* Errors, requests and responses.                                         *)

Error(msg) == [isError |-> TRUE, message |-> msg]

\* error instanceof Error ? error.message : 'Unknown error occurred'
errorMessage(error) ==
    IF error.isError THEN error.message ELSE <<"Unknown error occurred">>

CircularError == Error(<<"Converting circular structure to JSON">>)
AbortError == Error(<<"This operation was aborted">>)
NullReadError == Error(<<"Cannot read properties of null">>)
FetchErrors == {Error(<<"fetch failed">>)}
BodyErrors == {Error(<<"terminated">>)}
JsonErrors == {Error(<<"Unexpected end of JSON input">>)}

NoKeyMessage ==
    <<"Error: ", "v0 API key not configured. Please run the 'Manage v0 API Key' command.">>
NoMessageMessage == <<"Error: ", "No response message from v0 API">>
NoResponseMessage == <<"Error: ", "No response from v0 API">>

RECURSIVE Digits(_)
\* The decimal digits of a number, as a template literal prints it.
Digits(n) ==
    IF n < 10
    THEN <<CASE n = 0 -> "0" [] n = 1 -> "1" [] n = 2 -> "2" [] n = 3 -> "3"
             [] n = 4 -> "4" [] n = 5 -> "5" [] n = 6 -> "6" [] n = 7 -> "7"
             [] n = 8 -> "8" [] OTHER -> "9">>
    ELSE Digits(n \div 10) \o Digits(n % 10)

\* The HTTP responses fetch resolves to.
Responses ==
    {[ok |-> TRUE, status |-> 200, statusText |-> <<"OK">>],
     [ok |-> FALSE, status |-> 401, statusText |-> <<"Unauthorized">>],
     [ok |-> FALSE, status |-> 503, statusText |-> <<"Service Unavailable">>]}

\* The body texts response.text() resolves to.
BodyTexts == {<<>>, <<"denied">>}

requestFailedMessageNoStatus(response, errorText) ==
    <<"v0 API request failed: ">> \o response.statusText \o <<" - ">> \o errorText

\* `v0 API request failed: ${response.status} ${response.statusText} - ${errorText}`
requestFailedMessage(response, errorText) ==
    <<"v0 API request failed: ">> \o Digits(response.status) \o <<" ">>
        \o response.statusText \o <<" - ">> \o errorText

\* The JSON bodies response.json() resolves to: null, an object without
\* choices, with no choice, with a null first choice, with a first choice
\* without message, and with a first choice carrying a message.
NullJson == [isNull |-> TRUE]
Json(choices) == [isNull |-> FALSE, choices |-> choices]
NullChoice == [isNull |-> TRUE]
Choice(msg) == [isNull |-> FALSE, message |-> msg]

GenMessages ==
    {[content |-> Some(<<"h", "i">>), tool_calls |-> None],
     [content |-> Some(<<>>), tool_calls |-> None],
     [content |-> None,
      tool_calls |-> Some(<<ToolCall("c1", "function",
                                     Some([name |-> "f", arguments |-> <<"{">>])),
                            ToolCall("c2", "retrieval", None)>>)],
     [content |-> Some(<<"h", "i">>),
      tool_calls |-> Some(<<ToolCall("c1", "function",
                                     Some([name |-> "f", arguments |-> <<"{", "}">>])),
                            NullToolCall>>)],
     [content |-> Some(<<>>),
      tool_calls |-> Some(<<ToolCall("c1", "function", None)>>)]}

JsonBodies ==
    {NullJson, Json(None), Json(Some(<<>>)), Json(Some(<<NullChoice>>)),
     Json(Some(<<Choice(None)>>))}
    \cup {Json(Some(<<Choice(Some(m))>>)) : m \in GenMessages}

\* The tools and tool modes the host passes in options.
ToolLists ==
    {None,
     Some(<<[name |-> "t", description |-> "d", inputSchema |-> None]>>),
     Some(<<[name |-> "t", description |-> "d", inputSchema |-> Some(JsonCyclic)]>>)}
ToolModes == {1, 2}         \* LanguageModelChatToolMode.Auto, .Required

\* The histories the host passes to a generation.
GenHistories ==
    {<<[role |-> 1, content |-> <<TextPart(<<"a">>)>>]>>,
     <<[role |-> 2, content |-> <<ToolCallPart("t1", "f", JsonCyclic)>>]>>}

GenArgs ==
    [modelId : {"v0-1.5-md"}, messages : GenHistories, tools : ToolLists,
     toolMode : ToolModes]

convertToolsToV0Format(tools) ==
    [i \in 1..Len(tools) |->
        [type |-> "function",
         function |-> [name |-> tools[i].name,
                       description |-> tools[i].description,
                       parameters |-> IF tools[i].inputSchema.some
                                      THEN tools[i].inputSchema.val ELSE JsonObj]]]

convertToolMode(toolMode) ==
    CASE toolMode = 1 -> "auto"
      [] toolMode = 2 -> "required"
      [] OTHER -> "auto"

\* The requestBody object makeV0Request builds.
requestBody(modelId, msgs, tools, toolMode) ==
    LET withTools == tools.some /\ Len(tools.val) > 0 IN
    [model |-> modelId,
     messages |-> msgs,
     max_completion_tokens |-> 64000,
     tools |-> IF withTools THEN Some(convertToolsToV0Format(tools.val)) ELSE None,
     tool_choice |-> IF withTools THEN Some(convertToolMode(toolMode)) ELSE None]

\* JSON.stringify(requestBody) succeeds: no tool schema holds a cycle.
bodySerialises(body) ==
    body.tools.some =>
        \A i \in 1..Len(body.tools.val) :
            jsonStringify(body.tools.val[i].function.parameters).some

authorizationOfFirstKey(apiKey) == <<"Bearer ", "k1">>

\* Authorization: `Bearer ${apiKey}`
authorization(apiKey) == <<"Bearer ", apiKey>>

signalNeverAborted(isCancellationRequested) == FALSE

\* token.isCancellationRequested ? AbortSignal.abort() : undefined
\* (TRUE: a signal that is already aborted).
signal(isCancellationRequested) == isCancellationRequested

----------------------------------------------------------------------------
(* provideLanguageModelChatResponse and makeV0Request.                     *)

ReportDropped(call, part) == call

\* progress.report(part)
Report(call, part) == [call EXCEPT !.parts = Append(@, part)]

Returned(call, failure) ==
    [call EXCEPT !.pc = "done", !.outcome = "returned", !.failure = failure,
                 !.request = None]

caughtRethrown(call, error, failure) ==
    [call EXCEPT !.pc = "done", !.outcome = "raised", !.failure = failure,
                 !.request = None]

\* catch (error) { progress.report(new LanguageModelTextPart(`Error: ${errorMessage}`)) }
caught(call, error, failure) ==
    Returned(Report(call, TextPart(<<"Error: ">> \o errorMessage(error))), failure)

fetchRejectedRetried(call, error) ==
    IF call.posts < 2 THEN [call EXCEPT !.posts = @ + 1]
    ELSE caught(call, error, "fetchRejected")

\* fetch rejects: the rejection reaches the catch of the generation call.
fetchRejected(call, error) == caught(call, error, "fetchRejected")

\* The host calls provideLanguageModelChatResponse; it runs to its first await.
GenInvoke(c) ==
    /\ c \in GenCalls
    /\ calls[c].pc = "idle"
    /\ calls' = [calls EXCEPT ![c] =
           [kind |-> "gen", pc |-> "getKey", cancelled |-> FALSE, apiKey |-> None,
            parts |-> <<>>, posts |-> 0, tokenReads |-> 0, aborted |-> FALSE,
            cancelledAtDispatch |-> FALSE,
            request |-> None, response |-> None, errorText |-> None, json |-> None,
            failure |-> "none", outcome |-> "pending"]]
    /\ UNCHANGED <<secret, convVars, procVars>>

\* The host requests cancellation through the call's token.
Cancel(c) ==
    /\ c \in GenCalls
    /\ calls[c].pc \in {"getKey", "gotKey", "fetching", "readText", "readJson"}
    /\ ~calls[c].cancelled
    /\ calls' = [calls EXCEPT ![c].cancelled = TRUE]
    /\ UNCHANGED <<secret, convVars, procVars>>

\* context.secrets.get('v0.apiKey') reads the store, some time after the call
\* was made and before the caller resumes.
SecretGet(c) ==
    /\ calls[c].pc = "getKey"
    /\ calls' = [calls EXCEPT ![c].apiKey = secret, ![c].pc = "gotKey"]
    /\ UNCHANGED <<secret, convVars, procVars>>

\* From the key to the fetch call: the missing-key report, convertMessages,
\* the request body, the one read of the token and the POST.
GenResume(c) ==
    /\ c \in GenCalls
    /\ calls[c].pc = "gotKey"
    /\ LET call == calls[c] IN
       IF ~Truthy(call.apiKey)
       THEN calls' = [calls EXCEPT ![c] = Returned(Report(call, TextPart(NoKeyMessage)), "noKey")]
       ELSE \E args \in GenArgs :
            LET converted == convertMessages(args.messages)
                body == requestBody(args.modelId,
                                    IF converted.threw THEN <<>> ELSE converted.value,
                                    args.tools, args.toolMode)
            IN  IF converted.threw \/ ~bodySerialises(body)
                THEN calls' = [calls EXCEPT ![c] = caught(call, CircularError, "construct")]
                ELSE calls' = [calls EXCEPT ![c] =
                         [call EXCEPT
                            !.pc = "fetching",
                            !.tokenReads = @ + 1,
                            !.posts = @ + 1,
                            !.aborted = signal(call.cancelled),
                            !.cancelledAtDispatch = call.cancelled,
                            !.request = Some([url |-> <<"https://api.v0.dev", "/v1/chat/completions">>,
                                              method |-> "POST",
                                              authorization |-> authorization(call.apiKey.val),
                                              body |-> body,
                                              aborted |-> signal(call.cancelled)])]]
    /\ UNCHANGED <<secret, convVars, procVars>>

\* await fetch(...) settles: an aborted signal rejects it at once; otherwise
\* the network rejects it or answers with a status.
FetchSettle(c) ==
    /\ c \in GenCalls
    /\ calls[c].pc = "fetching"
    /\ LET call == calls[c] IN
       IF call.request.val.aborted
       THEN calls' = [calls EXCEPT ![c] = caught(call, AbortError, "aborted")]
       ELSE \/ \E error \in FetchErrors :
                   calls' = [calls EXCEPT ![c] = fetchRejected(call, error)]
            \/ \E response \in Responses :
                   calls' = [calls EXCEPT ![c] =
                       [call EXCEPT !.response = Some(response),
                                    !.request = None,
                                    !.pc = IF response.ok THEN "readJson" ELSE "readText"]]
    /\ UNCHANGED <<secret, convVars, procVars>>

\* await response.text() settles, on a response that is not ok.
TextSettle(c) ==
    /\ c \in GenCalls
    /\ calls[c].pc = "readText"
    /\ LET call == calls[c] IN
       \/ \E errorText \in BodyTexts :
              calls' = [calls EXCEPT ![c] =
                  caught([call EXCEPT !.errorText = Some(errorText)],
                         Error(requestFailedMessage(call.response.val, errorText)),
                         "httpStatus")]
       \/ \E error \in BodyErrors :
              calls' = [calls EXCEPT ![c] = caught(call, error, "bodyUnreadable")]
    /\ UNCHANGED <<secret, convVars, procVars>>

\* The rest of the try block, given the parsed body.
handleResponse(call, json) ==
    IF ~json.isNull /\ json.choices.some /\ Len(json.choices.val) > 0
    THEN IF json.choices.val[1].isNull
         THEN caught(call, NullReadError, "handling")
         ELSE LET msg == json.choices.val[1].message IN
              IF msg.some
              THEN LET out == processV0Response(msg.val)
                       reported == [call EXCEPT !.parts = @ \o out.parts]
                   IN  IF out.threw THEN caught(reported, NullReadError, "handling")
                       ELSE Returned(reported, "none")
              ELSE Returned(Report(call, TextPart(NoMessageMessage)), "noMessage")
    ELSE Returned(Report(call, TextPart(NoResponseMessage)), "noChoices")

\* await response.json() settles, on a response that is ok.
JsonSettle(c) ==
    /\ c \in GenCalls
    /\ calls[c].pc = "readJson"
    /\ LET call == calls[c] IN
       \/ \E json \in JsonBodies :
              calls' = [calls EXCEPT ![c] = handleResponse([call EXCEPT !.json = Some(json)], json)]
       \/ \E error \in JsonErrors :
              calls' = [calls EXCEPT ![c] = caught(call, error, "bodyUnreadable")]
    /\ UNCHANGED <<secret, convVars, procVars>>

\* The host takes the settled call's result.
HostTakeResult(c) ==
    /\ calls[c].pc = "done"
    /\ calls' = [calls EXCEPT ![c] = Idle(c)]
    /\ UNCHANGED <<secret, convVars, procVars>>

----------------------------------------------------------------------------
(* provideTokenCount and extractTextFromMessage.                           *)

\* String.prototype.length of a fragment: the literals count their
\* characters, every other fragment is one character.
FragmentLength(f) == IF f = "[object Object]" THEN 15 ELSE 1

RECURSIVE length(_)
length(s) == IF s = <<>> THEN 0 ELSE FragmentLength(Head(s)) + length(Tail(s))

\* Math.ceil(n / 4)
ceilQuarter(n) == (n + 3) \div 4

\* message.content.filter('value' in part).map(part => part.value).join('')
extractTextFromMessage(msg) == join(resultTexts(msg.content))

\* What the host passes as text: a string, or a chat message.
TextArg(s) == [isString |-> TRUE, string |-> s]
MessageArg(msg) == [isString |-> FALSE, message |-> msg]
TokenInputs ==
    {TextArg(<<>>),
     TextArg(<<"a", "b", "c", "d">>),
     TextArg(<<"a", "b", "c", "d", "e">>),
     MessageArg([role |-> 1,
                 content |-> <<TextPart(<<"a", "b">>), ToolResultPart("t1", <<TextPart(<<"a">>)>>),
                               TextPart(<<"c", "d">>)>>])}

\* The number provideTokenCount resolves to.
tokenCount(text) ==
    LET textContent == IF text.isString THEN text.string
                       ELSE extractTextFromMessage(text.message)
    IN  ceilQuarter(length(textContent))

\* The host calls provideTokenCount; it has no await and runs to its return.
ProvideTokenCount(c) ==
    /\ c \in CountCalls
    /\ calls[c].pc = "idle"
    /\ \E text \in TokenInputs :
           calls' = [calls EXCEPT ![c] =
               [kind |-> "count", pc |-> "done", text |-> text,
                result |-> tokenCount(text), outcome |-> "returned"]]
    /\ UNCHANGED <<secret, convVars, procVars>>

----------------------------------------------------------------------------
(* provideLanguageModelChatInformation, promptForApiKey and manageApiKey.  *)

promptsEvenWhenSilent(silent) == TRUE

\* if (options.silent) return []; else await this.promptForApiKey()
promptsWhenMissing(silent) == ~silent

storesAnyText(apiKey) == apiKey.some

\* if (apiKey) in manageApiKey: undefined and the empty text are not stored.
storesKey(apiKey) == Truthy(apiKey)

\* The host calls provideLanguageModelChatInformation({silent}).
InfoInvoke(c) ==
    /\ c \in InfoCalls
    /\ calls[c].pc = "idle"
    /\ \E silent \in BOOLEAN :
           calls' = [calls EXCEPT ![c] =
               [kind |-> "info", pc |-> "getKey", silent |-> silent, apiKey |-> None,
                newApiKey |-> None, shown |-> <<>>, writes |-> <<>>, choice |-> None,
                entered |-> None, result |-> None, outcome |-> "pending"]]
    /\ UNCHANGED <<secret, convVars, procVars>>

\* After the first read of the key: the list, the empty list, or the prompt.
InfoResume(c) ==
    /\ c \in InfoCalls
    /\ calls[c].pc = "gotKey"
    /\ LET call == calls[c] IN
       calls' = [calls EXCEPT ![c] =
           IF Truthy(call.apiKey)
           THEN [call EXCEPT !.pc = "done", !.outcome = "returned", !.result = Some(modelList)]
           ELSE IF promptsWhenMissing(call.silent)
                THEN [call EXCEPT !.pc = "confirm", !.shown = Append(@, "confirm")]
                ELSE [call EXCEPT !.pc = "done", !.outcome = "returned", !.result = Some(<<>>)]]
    /\ UNCHANGED <<secret, convVars, procVars>>

\* promptForApiKey: the confirmation settles; 'Configure API Key' opens the
\* input box of manageApiKey, anything else goes on to the second read.
ConfirmSettle(c) ==
    /\ c \in InfoCalls
    /\ calls[c].pc = "confirm"
    /\ \E choice \in ConfirmChoices :
           calls' = [calls EXCEPT ![c] =
               IF choice = Some("Configure API Key")
               THEN [calls[c] EXCEPT !.choice = choice, !.pc = "inputBox",
                                     !.shown = Append(@, "input")]
               ELSE [calls[c] EXCEPT !.choice = choice, !.pc = "getKey2"]]
    /\ UNCHANGED <<secret, convVars, procVars>>

\* The 'v0.manage' command calls manageApiKey, which opens the input box.
ManageInvoke(c) ==
    /\ c \in ManageCalls
    /\ calls[c].pc = "idle"
    /\ calls' = [calls EXCEPT ![c] =
           [kind |-> "manage", pc |-> "inputBox", shown |-> <<"input">>,
            writes |-> <<>>, entered |-> None, outcome |-> "pending"]]
    /\ UNCHANGED <<secret, convVars, procVars>>

\* Where manageApiKey's caller goes on once it returns.
AfterManage(call) == IF call.kind = "manage" THEN "done" ELSE "getKey2"
OutcomeAfterManage(call) == IF call.kind = "manage" THEN "returned" ELSE "pending"

\* manageApiKey: the input box settles; a non-empty text is stored. The write
\* lands in the store when secrets.store is called; its await settles later.
InputSettle(c) ==
    /\ calls[c].pc = "inputBox"
    /\ \E apiKey \in InputValues :
           IF storesKey(apiKey)
           THEN /\ secret' = Some(apiKey.val)
                /\ calls' = [calls EXCEPT ![c] =
                       [calls[c] EXCEPT !.entered = apiKey, !.pc = "storing",
                                        !.writes = Append(@, apiKey.val)]]
           ELSE /\ secret' = secret
                /\ calls' = [calls EXCEPT ![c] =
                       [calls[c] EXCEPT !.entered = apiKey, !.pc = AfterManage(calls[c]),
                                        !.outcome = OutcomeAfterManage(calls[c])]]
    /\ UNCHANGED <<convVars, procVars>>

\* manageApiKey: await secrets.store(...) settles; the 'saved' notice is shown.
StoreSettle(c) ==
    /\ calls[c].pc = "storing"
    /\ calls' = [calls EXCEPT ![c] =
           [calls[c] EXCEPT !.pc = AfterManage(calls[c]),
                            !.outcome = OutcomeAfterManage(calls[c]),
                            !.shown = Append(@, "saved")]]
    /\ UNCHANGED <<secret, convVars, procVars>>

\* The second context.secrets.get, after promptForApiKey.
SecretGetAgain(c) ==
    /\ c \in InfoCalls
    /\ calls[c].pc = "getKey2"
    /\ calls' = [calls EXCEPT ![c].newApiKey = secret, ![c].pc = "gotKey2"]
    /\ UNCHANGED <<secret, convVars, procVars>>

\* if (!newApiKey) return []; otherwise the list.
InfoResumeAgain(c) ==
    /\ c \in InfoCalls
    /\ calls[c].pc = "gotKey2"
    /\ calls' = [calls EXCEPT ![c] =
           [calls[c] EXCEPT !.pc = "done", !.outcome = "returned",
                            !.result = IF Truthy(calls[c].newApiKey)
                                       THEN Some(modelList) ELSE Some(<<>>)]]
    /\ UNCHANGED <<secret, convVars, procVars>>

----------------------------------------------------------------------------
(* Spec: the provider under the host's concurrent calls.                   *)

Init ==
    /\ messages = <<>>
    /\ v0Messages = None
    /\ message = None
    /\ progress = <<>>
    /\ processed = "no"
    /\ secret \in {None, Some("k1")}
    /\ calls = [c \in Calls |-> Idle(c)]

Next ==
    \E c \in Calls :
        \/ GenInvoke(c)
        \/ Cancel(c)
        \/ SecretGet(c)
        \/ GenResume(c)
        \/ FetchSettle(c)
        \/ TextSettle(c)
        \/ JsonSettle(c)
        \/ ProvideTokenCount(c)
        \/ InfoInvoke(c)
        \/ InfoResume(c)
        \/ ConfirmSettle(c)
        \/ ManageInvoke(c)
        \/ InputSettle(c)
        \/ StoreSettle(c)
        \/ SecretGetAgain(c)
        \/ InfoResumeAgain(c)
        \/ HostTakeResult(c)

Spec == Init /\ [][Next]_vars

----------------------------------------------------------------------------
(* Claims about the provider's operations, checked under Spec.             *)

Active(c) == calls[c].pc # "idle"
Done(c) == calls[c].pc = "done"
KeyRead(c) == calls[c].pc \notin {"idle", "getKey"}
LastPart(call) == call.parts[Len(call.parts)]
IsErrorText(part) == IsText(part) /\ StartsWith(part.value, <<"Error: ">>)
Accepted(call) == call.choice = Some("Configure API Key")

\* C1: a silent listing that finds no key returns the empty list, shows no
\* prompt and writes nothing to the secret store; a listing (silent or not)
\* that finds a key returns exactly the two descriptors, v0-1.5-md then
\* v0-1.5-lg, and shows no prompt.
C1_SilentOrKeyedListing ==
    \A c \in InfoCalls :
        LET call == calls[c] IN
        KeyRead(c) =>
            /\ (call.silent /\ ~Truthy(call.apiKey)) =>
                   /\ call.shown = <<>>
                   /\ call.writes = <<>>
                   /\ call.pc \in {"gotKey", "done"}
                   /\ Done(c) => call.outcome = "returned" /\ call.result = Some(<<>>)
            /\ Truthy(call.apiKey) =>
                   /\ call.shown = <<>>
                   /\ call.pc \in {"gotKey", "done"}
                   /\ Done(c) =>
                          /\ call.outcome = "returned"
                          /\ Len(call.result.val) = 2
                          /\ call.result.val[1].id = "v0-1.5-md"
                          /\ call.result.val[2].id = "v0-1.5-lg"

\* C1 witness: a silent listing has returned the empty list while no key is stored.
C1_Witness ==
    \E c \in InfoCalls :
        /\ Done(c)
        /\ calls[c].silent
        /\ ~Truthy(calls[c].apiKey)
        /\ calls[c].result = Some(<<>>)
        /\ secret = None

NonSuccess(c) == Done(c) /\ calls[c].response.some /\ ~calls[c].response.val.ok

\* C3 as amended: when the HTTP call returns a non-2xx status, exactly one
\* part is reported, a text part that begins with "Error: "; when the body of
\* that response could be read, the text carries the status code, the status
\* text and the body; when reading the body failed, it carries the message of
\* that failure instead.
C3_NonSuccessReportedOnce ==
    \A c \in GenCalls :
        LET call == calls[c] IN
        NonSuccess(c) =>
            /\ Len(call.parts) = 1
            /\ IsErrorText(call.parts[1])
            /\ call.errorText.some =>
                   /\ Contains(call.parts[1].value, Digits(call.response.val.status))
                   /\ Contains(call.parts[1].value, call.response.val.statusText)
                   /\ Contains(call.parts[1].value, call.errorText.val)
            /\ ~call.errorText.some =>
                   \E error \in BodyErrors :
                       call.parts[1].value = <<"Error: ">> \o error.message

\* C3 witness: a 401 whose body "denied" was read has been reported.
C3_Witness ==
    \E c \in GenCalls :
        /\ NonSuccess(c)
        /\ calls[c].response.val.status = 401
        /\ calls[c].errorText = Some(<<"denied">>)
        /\ Contains(calls[c].parts[1].value, <<"4", "0", "1">>)

\* C3 as stated: on a non-2xx status the one part reported always contains
\* the HTTP status code.
C3_StatusAlwaysReported ==
    \A c \in GenCalls :
        NonSuccess(c) =>
            /\ Len(calls[c].parts) = 1
            /\ IsErrorText(calls[c].parts[1])
            /\ Contains(calls[c].parts[1].value, Digits(calls[c].response.val.status))

\* C4 as amended: a generation issues at most one HTTP POST over its whole
\* lifetime, and never a second one after the first fails; it issues none
\* when no key is stored or when building the request throws, and exactly one
\* otherwise.
C4_AtMostOnePost ==
    \A c \in GenCalls :
        LET call == calls[c] IN
        Active(c) =>
            /\ call.posts <= 1
            /\ Done(c) =>
                   call.posts = (IF Truthy(call.apiKey) /\ call.failure # "construct"
                                 THEN 1 ELSE 0)

\* C4 witness: a generation whose POST was rejected has ended with one POST.
C4_Witness ==
    \E c \in GenCalls :
        /\ Done(c)
        /\ calls[c].failure = "fetchRejected"
        /\ calls[c].posts = 1

\* C4 as stated: none when no key is stored, exactly one when a key is stored.
C4_ExactlyOnePostWithKey ==
    \A c \in GenCalls :
        Done(c) => calls[c].posts = (IF Truthy(calls[c].apiKey) THEN 1 ELSE 0)

Prompted(c) ==
    /\ c \in InfoCalls
    /\ calls[c].pc \notin {"idle", "getKey", "gotKey"}
    /\ ~calls[c].silent
    /\ ~Truthy(calls[c].apiKey)

\* C5 as amended: a listing that is not silent and finds no key first shows
\* the confirmation prompt; only if the user accepts it is the input box
\* shown; only a non-empty entered value is written to the secret store, and
\* the call then returns the two descriptors. If the user declines, dismisses
\* the input box or enters an empty value, the call writes nothing, and it
\* returns the empty list unless its second read of the store finds a key that
\* another call has stored meanwhile, in which case it returns the two
\* descriptors.
C5_PromptThenInputThenStore ==
    \A c \in InfoCalls :
        LET call == calls[c] IN
        Prompted(c) =>
            /\ call.shown[1] = "confirm"
            /\ Len(call.shown) > 1 => Accepted(call) /\ call.shown[2] = "input"
            /\ call.pc = "inputBox" => Accepted(call)
            /\ call.writes # <<>> =>
                   /\ Accepted(call)
                   /\ Truthy(call.entered)
                   /\ call.writes = <<call.entered.val>>
            /\ Done(c) =>
                   IF Accepted(call) /\ Truthy(call.entered)
                   THEN /\ call.writes = <<call.entered.val>>
                        /\ call.result = Some(modelList)
                   ELSE /\ call.writes = <<>>
                        /\ call.result = IF Truthy(call.newApiKey)
                                         THEN Some(modelList) ELSE Some(<<>>)

\* C5 witness: the user accepted, entered k2, and the call returned the list.
C5_Witness ==
    \E c \in InfoCalls :
        /\ Prompted(c)
        /\ Done(c)
        /\ Accepted(calls[c])
        /\ calls[c].entered = Some("k2")
        /\ calls[c].writes = <<"k2">>
        /\ calls[c].shown = <<"confirm", "input", "saved">>
        /\ calls[c].result = Some(modelList)

\* C5 as stated: if the user declines the confirmation, dismisses the input
\* box or enters an empty value, the call returns the empty list.
C5_DeclinedReturnsEmpty ==
    \A c \in InfoCalls :
        (Prompted(c) /\ Done(c) /\ ~(Accepted(calls[c]) /\ Truthy(calls[c].entered))) =>
            /\ calls[c].writes = <<>>
            /\ calls[c].result = Some(<<>>)

FirstMessage(json) == json.choices.val[1].message.val

\* What C10 says of a generation that has read its token: cancellation
\* requested by then aborts the request and ends in an error text; cancellation
\* requested later changes nothing of what is reported.
CancellationAtDispatchOnly(call) ==
    /\ call.tokenReads <= 1
    /\ call.tokenReads = call.posts
    /\ call.posts = 1 => (call.aborted <=> call.cancelledAtDispatch)
    /\ (call.pc = "done" /\ call.cancelledAtDispatch) =>
           /\ call.failure = "aborted"
           /\ call.response = None
           /\ Len(call.parts) = 1
           /\ IsErrorText(call.parts[1])
    /\ (call.pc = "done" /\ call.posts = 1 /\ call.cancelled /\ ~call.cancelledAtDispatch) =>
           /\ call.failure # "aborted"
           /\ call.failure = "none" =>
                  /\ call.response.val.ok
                  /\ call.parts = processV0Response(FirstMessage(call.json.val)).parts
           /\ call.failure = "httpStatus" =>
                  Contains(call.parts[1].value, Digits(call.response.val.status))

\* C10 as amended: the cancellation token is read at most once per
\* generation, and exactly once in every generation that constructs the HTTP
\* call, at that moment (a generation that ends before it, for a missing key
\* or a failure to build the request, never reads it); if cancellation is
\* already requested then, the request is aborted immediately and the
\* generation ends by reporting an error text part; if it is requested later,
\* it has no effect and the generation reports the outcome of the HTTP call.
C10_TokenReadAtDispatch ==
    \A c \in GenCalls : Active(c) => CancellationAtDispatchOnly(calls[c])

\* C10 witness: cancelled after the dispatch, the generation still reported
\* the text of the successful response.
C10_Witness ==
    \E c \in GenCalls :
        /\ Done(c)
        /\ calls[c].cancelled
        /\ ~calls[c].cancelledAtDispatch
        /\ calls[c].failure = "none"
        /\ calls[c].parts = <<TextPart(<<"h", "i">>)>>

\* C10 as stated: the token is read exactly once per generation.
C10_TokenReadExactlyOnce ==
    \A c \in GenCalls :
        /\ Active(c) => CancellationAtDispatchOnly(calls[c])
        /\ Done(c) => calls[c].tokenReads = 1

\* A step that changes the stored key is the step of one listing or manage
\* call whose input box returns a non-empty value, which is the value stored;
\* no other call moves in that step.
KeyChangesAtInputOnly ==
    secret' # secret =>
        \E c \in InfoCalls \cup ManageCalls :
            /\ calls[c].pc = "inputBox"
            /\ c \in InfoCalls => ~calls[c].silent
            /\ Truthy(calls'[c].entered)
            /\ secret' = Some(calls'[c].entered.val)
            /\ \A d \in Calls \ {c} : calls'[d] = calls[d]

\* A generation keeps the key it has read until it is over.
KeyReadIsKept ==
    \A c \in GenCalls :
        (KeyRead(c) /\ calls'[c].pc # "idle") => calls'[c].apiKey = calls[c].apiKey

\* The request in flight is the generation's one POST, and carries its key.
RequestCarriesKeyRead ==
    \A c \in GenCalls :
        (Active(c) /\ calls[c].request.some) =>
            /\ calls[c].posts = 1
            /\ Truthy(calls[c].apiKey)
            /\ calls[c].request.val.method = "POST"
            /\ calls[c].request.val.authorization = <<"Bearer ", calls[c].apiKey.val>>

\* C11: under any interleaving of generations, token counts, listings and
\* manage commands, the stored key changes only in the step where a key-entry
\* input box returns a non-empty value (so never in a step of a generation,
\* of a token count or of a silent listing), and each generation sends in its
\* single HTTP request the key it read at its start, even when another call
\* has changed the stored key before the request is sent.
C11_KeyWrittenOnlyAtInput ==
    /\ []RequestCarriesKeyRead
    /\ [][KeyChangesAtInputOnly /\ KeyReadIsKept]_vars

\* C11 witness: a generation that read k1 has its request in flight with k1
\* after another call stored k2, and a token count has returned meanwhile.
C11_Witness ==
    /\ \E c \in GenCalls :
           /\ calls[c].pc = "fetching"
           /\ calls[c].apiKey = Some("k1")
           /\ calls[c].request.val.authorization = <<"Bearer ", "k1">>
    /\ secret = Some("k2")
    /\ \E c \in CountCalls : Done(c) /\ calls[c].result = 1

EmptyContent(msg) == ~msg.content.some \/ msg.content.val = <<>>
RecordsOf(msg) == IF msg.tool_calls.some THEN msg.tool_calls.val ELSE <<>>

\* The generation got a successful HTTP response whose first choice carries a
\* message, and handled it without failure.
Succeeded(call) ==
    /\ call.failure = "none"
    /\ call.response.some
    /\ call.response.val.ok
    /\ call.json.some
    /\ ~call.json.val.isNull
    /\ call.json.val.choices.some
    /\ Len(call.json.val.choices.val) > 0
    /\ ~call.json.val.choices.val[1].isNull
    /\ call.json.val.choices.val[1].message.some

====
